---- MODULE Spec2Model ----
(***************************************************************************)
(* Model of exit-future (src/src/lib.rs): a Signal and its cloneable Exits *)
(* over one broadcaster::BroadcastChannel<()>.                             *)
(*                                                                         *)
(* Every handle (the Signal's channel and each Exit) owns one unbounded    *)
(* receiver; the senders of all live handles sit in one shared slab.       *)
(* clone() makes a fresh, empty receiver and registers its sender; drop    *)
(* of a handle unregisters its sender and destroys its receiver; send()    *)
(* copies the slab and then sends to the copied senders one after the      *)
(* other, stopping at the first sender whose receiver is gone; recv()      *)
(* takes the next message of the handle's own receiver.                    *)
(***************************************************************************)
EXTENDS Integers, FiniteSets, TLC

\* Bounds of the model.
MaxExits == 2      \* Exit handles that can ever be created (the first one and its clones)
MaxFires == 1      \* explicit fire() calls (the Signal's drop sends once more)

Sig == 0
Exits == 1..MaxExits
Handles == 0..MaxExits

VARIABLES
    st,        \* Exit -> "unborn" | "live" | "dropped" | "unit" (wait returned) | "Some" | "None" (until's output)
    q,         \* handle -> messages waiting in the handle's own receiver
    slab,      \* handles whose sender is registered in the shared slab
    mode,      \* Exit -> "held" | "wait" | "until": who owns the live Exit
    work,      \* Exit -> "none" | "pending" | "ready": the future raced by until
    nready,    \* live Exit -> how often a poll of it returned Ready
    parked,    \* live Exit -> its latest poll returned Pending and nothing woke it since
    woke,      \* live Exit -> a send unparked the thread blocked in wait() on it, which has not polled since (history)
    born,      \* live Exit -> "early" | "mid" | "late": created before any send began, during a send, after one (history)
    sig,       \* "alive" | "dropped" | "panicked"
    fpc,       \* "idle" | "sending": a send (fire or drop) in progress
    fkind,     \* "none" | "fire" | "drop": who began the latest send
    snap,      \* senders of the copied slab the running send has not reached yet
    ferr,      \* the latest send hit a sender whose receiver is gone
    lost,      \* an Exit the latest send had copied and not reached went away during it (history)
    fres,      \* "none" | "Ok" | "Err": what the latest explicit fire() returned
    nfires     \* explicit fire() calls begun

vars == <<st, q, slab, mode, work, nready, parked, woke, born,
          sig, fpc, fkind, snap, ferr, lost, fres, nfires>>

exitVars == <<st, mode, work, nready, parked, woke, born>>
fireVars == <<sig, fpc, fkind, snap, ferr, fres, nfires>>
sendVars == <<sig, fpc, fkind, snap, ferr, lost, fres, nfires>>

----------------------------------------------------------------------------
\* signal(): one channel for the Signal, one clone of it for the Exit.
Init ==
    /\ st = [e \in Exits |-> IF e = 1 THEN "live" ELSE "unborn"]
    /\ q = [h \in Handles |-> 0]
    /\ slab = {Sig, 1}
    /\ mode = [e \in Exits |-> "held"]
    /\ work = [e \in Exits |-> "none"]
    /\ nready = [e \in Exits |-> 0]
    /\ parked = [e \in Exits |-> FALSE]
    /\ woke = [e \in Exits |-> FALSE]
    /\ born = [e \in Exits |-> IF e = 1 THEN "early" ELSE "none"]
    /\ sig = "alive"
    /\ fpc = "idle"
    /\ fkind = "none"
    /\ snap = {}
    /\ ferr = FALSE
    /\ lost = FALSE
    /\ fres = "none"
    /\ nfires = 0

----------------------------------------------------------------------------
\* The receiver side.

\* The handle's receiver still exists.
ReceiverAlive(h) == IF h = Sig THEN sig = "alive" ELSE st[h] = "live"

\* Every sender of the handle's channel is gone: recv() yields None.
RecvClosed(h) == h \notin slab /\ ~(fpc = "sending" /\ h \in snap)

\* recv() is ready: a message waits, or the channel is closed.
RecvReady(h) == q[h] > 0 \/ RecvClosed(h)

\* Faulty variant: the poll is ready only for the first message of the Exit.
ExitPollFirstOnly(e) == IF RecvReady(e) /\ nready[e] = 0 THEN "Ready" ELSE "Pending"

\* Exit::poll: a fresh recv() polled once, its Option<()> mapped to ().
ExitPoll(e) == IF RecvReady(e) THEN "Ready" ELSE "Pending"

\* Faulty variant: one poll takes a waiting message out of every receiver.
TakeShared(e) == [h \in Handles |-> IF q[h] > 0 THEN q[h] - 1 ELSE q[h]]

\* The receiver after one poll: a waiting message is taken.
Take(e) == [q EXCEPT ![e] = IF @ > 0 THEN @ - 1 ELSE @]

\* The messages a clone's receiver starts with.
ClonedQueue(src) == 0

\* Faulty variant: a dropped handle leaves its sender registered.
SlabWithoutKept(h) == slab

\* The slab after a handle is dropped.
SlabWithout(h) == slab \ {h}

\* Faulty variant: a clone does not register its sender, which is dropped at once.
RegisteredNot(n) == slab

\* The slab after a clone registered its sender.
Registered(n) == slab \cup {n}

\* Faulty variant: the select polls the work first.
SelectWorkFirst(exitReady, workReady) ==
    IF workReady THEN "Some" ELSE IF exitReady THEN "None" ELSE "Pending"

\* select(exit, work) mapped by until: the Exit is polled first.
Select(exitReady, workReady) ==
    IF exitReady THEN "None" ELSE IF workReady THEN "Some" ELSE "Pending"

\* The Exit handle goes away (dropped, or consumed by wait / until); of an
\* until that resolved, the state of the raced work is kept.
Gone(e, how) ==
    /\ st' = [st EXCEPT ![e] = how]
    /\ slab' = SlabWithout(e)
    /\ mode' = [mode EXCEPT ![e] = "held"]
    /\ work' = [work EXCEPT ![e] = IF how \in {"Some", "None"} THEN @ ELSE "none"]
    /\ q' = [q EXCEPT ![e] = 0]
    /\ nready' = [nready EXCEPT ![e] = 0]
    /\ parked' = [parked EXCEPT ![e] = FALSE]
    /\ woke' = [woke EXCEPT ![e] = FALSE]
    /\ born' = [born EXCEPT ![e] = "none"]
    /\ lost' = (lost \/ (fpc = "sending" /\ e \in snap))

\* #[derive(Clone)] on a held Exit.
Clone(e) ==
    /\ st[e] = "live" /\ mode[e] = "held"
    /\ \E n \in Exits :
        /\ st[n] = "unborn"
        /\ \A m \in Exits : st[m] = "unborn" => n <= m
        /\ st' = [st EXCEPT ![n] = "live"]
        /\ slab' = Registered(n)
        /\ q' = [q EXCEPT ![n] = ClonedQueue(e)]
        /\ born' = [born EXCEPT ![n] = IF fkind = "none" THEN "early"
                                       ELSE IF fpc = "sending" THEN "mid" ELSE "late"]
    /\ UNCHANGED <<mode, work, nready, parked, woke>>
    /\ UNCHANGED sendVars

\* One poll of a held Exit by its owner.
Poll(e) ==
    /\ st[e] = "live" /\ mode[e] = "held"
    /\ parked' = [parked EXCEPT ![e] = (ExitPoll(e) = "Pending")]
    /\ woke' = [woke EXCEPT ![e] = FALSE]
    /\ nready' = [nready EXCEPT ![e] = IF ExitPoll(e) = "Ready" THEN @ + 1 ELSE @]
    /\ q' = Take(e)
    /\ UNCHANGED <<st, slab, mode, work, born>>
    /\ UNCHANGED sendVars

\* Exit::wait begins: block_on owns the Exit.
Wait(e) ==
    /\ st[e] = "live" /\ mode[e] = "held"
    /\ mode' = [mode EXCEPT ![e] = "wait"]
    /\ parked' = [parked EXCEPT ![e] = FALSE]
    /\ UNCHANGED <<st, q, slab, work, nready, woke, born>>
    /\ UNCHANGED sendVars

\* block_on polls the Exit: wait returns, or the thread parks until woken.
WaitPoll(e) ==
    /\ st[e] = "live" /\ mode[e] = "wait" /\ ~parked[e]
    /\ IF ExitPoll(e) = "Ready"
       THEN Gone(e, "unit")
       ELSE /\ parked' = [parked EXCEPT ![e] = TRUE]
            /\ woke' = [woke EXCEPT ![e] = FALSE]
            /\ UNCHANGED <<st, slab, mode, work, nready, q, born, lost>>
    /\ UNCHANGED fireVars

\* Exit::until(work): the Exit moves into the select.
Until(e, w) ==
    /\ st[e] = "live" /\ mode[e] = "held"
    /\ mode' = [mode EXCEPT ![e] = "until"]
    /\ work' = [work EXCEPT ![e] = w]
    /\ parked' = [parked EXCEPT ![e] = FALSE]
    /\ UNCHANGED <<st, q, slab, nready, woke, born>>
    /\ UNCHANGED sendVars

\* Faulty variant: the work keeps running after the until yielded None.
WorkDoneDetached(e) ==
    /\ work[e] = "pending"
    /\ st[e] = "None" \/ (st[e] = "live" /\ mode[e] = "until")
    /\ work' = [work EXCEPT ![e] = "ready"]
    /\ parked' = [parked EXCEPT ![e] = FALSE]
    /\ UNCHANGED <<st, q, slab, mode, nready, woke, born>>
    /\ UNCHANGED sendVars

\* The raced work completes and wakes the until future.
WorkDone(e) ==
    /\ st[e] = "live" /\ mode[e] = "until" /\ work[e] = "pending"
    /\ work' = [work EXCEPT ![e] = "ready"]
    /\ parked' = [parked EXCEPT ![e] = FALSE]
    /\ UNCHANGED <<st, q, slab, mode, nready, woke, born>>
    /\ UNCHANGED sendVars

\* The executor polls the until future (at first, and after each wake).
UntilPoll(e) ==
    /\ st[e] = "live" /\ mode[e] = "until" /\ ~parked[e]
    /\ LET r == Select(ExitPoll(e) = "Ready", work[e] = "ready") IN
       IF r = "Pending"
       THEN /\ parked' = [parked EXCEPT ![e] = TRUE]
            /\ woke' = [woke EXCEPT ![e] = FALSE]
            /\ UNCHANGED <<st, q, slab, mode, work, nready, born, lost>>
       ELSE Gone(e, r)
    /\ UNCHANGED fireVars

\* An Exit (held, or inside a pending until future) is dropped unresolved.
DropExit(e) ==
    /\ st[e] = "live" /\ mode[e] \in {"held", "until"}
    /\ Gone(e, "dropped")
    /\ UNCHANGED fireVars

----------------------------------------------------------------------------
\* The sender side.

\* Faulty variant: fire swallows the error of the send.
FireResultSwallowed(err) == "Ok"

\* Signal::fire maps the send's result.
FireResult(err) == IF err THEN "Err" ELSE "Ok"

\* Drop for Signal unwraps the result of fire.
DropResult(err) == IF err THEN "panicked" ELSE "dropped"

\* Faulty variant: the drop does nothing.
DropFiresNever == FALSE

\* Faulty variant: the drop fires only when no explicit fire() was called.
DropFiresUnlessFired == nfires = 0

\* Whether the Signal's drop runs fire at all.
DropFires == TRUE

\* send() begins: the slab is copied.
BeginSend(k) ==
    /\ fpc' = "sending"
    /\ fkind' = k
    /\ snap' = slab
    /\ ferr' = FALSE
    /\ lost' = FALSE

\* Signal::fire is called.
FireStart ==
    /\ sig = "alive" /\ fpc = "idle" /\ nfires < MaxFires
    /\ BeginSend("fire")
    /\ nfires' = nfires + 1
    /\ fres' = "none"
    /\ UNCHANGED <<sig, q, slab>>
    /\ UNCHANGED exitVars

\* The Signal is dropped: Drop::drop calls fire.
DropStart ==
    /\ sig = "alive" /\ fpc = "idle"
    /\ IF DropFires
       THEN /\ BeginSend("drop")
            /\ UNCHANGED <<sig, slab, q>>
       ELSE /\ sig' = "dropped"
            /\ slab' = SlabWithout(Sig)
            /\ q' = [q EXCEPT ![Sig] = 0]
            /\ fkind' = "drop"
            /\ UNCHANGED <<fpc, snap, ferr, lost>>
    /\ UNCHANGED <<fres, nfires>>
    /\ UNCHANGED exitVars

\* Faulty variant: a receiver holds one message at most, and the send waits for room.
HasRoomBounded(h) == q[h] = 0

\* The receivers are unbounded: a send never waits for a message to be taken.
HasRoom(h) == TRUE

\* Faulty variant: the send does not wake the parked receiver.
WokenNot(h) == parked

\* The wakers after a message for h was queued: h's registered waker is woken.
Woken(h) == [e \in Exits |-> IF e = h THEN FALSE ELSE parked[e]]

\* The send reaches one copied sender: the message is queued and the parked
\* receiver woken, or the receiver is gone and the send stops with an error.
SendStep(h) ==
    /\ fpc = "sending" /\ h \in snap
    /\ ReceiverAlive(h) => HasRoom(h)
    /\ IF ReceiverAlive(h)
       THEN /\ q' = [q EXCEPT ![h] = @ + 1]
            /\ snap' = snap \ {h}
            /\ parked' = Woken(h)
            /\ woke' = [e \in Exits |-> IF e = h THEN (parked[e] /\ mode[e] = "wait") \/ woke[e]
                                          ELSE woke[e]]
            /\ UNCHANGED ferr
       ELSE /\ ferr' = TRUE
            /\ snap' = {}
            /\ UNCHANGED <<q, parked, woke>>
    /\ UNCHANGED <<st, slab, mode, work, nready, born>>
    /\ UNCHANGED <<sig, fpc, fkind, lost, fres, nfires>>

\* The send returns: fire returns its result; the drop unwraps it and the
\* Signal's own channel handle is destroyed.
SendFinish ==
    /\ fpc = "sending" /\ snap = {}
    /\ fpc' = "idle"
    /\ IF fkind = "fire"
       THEN /\ fres' = FireResult(ferr)
            /\ UNCHANGED <<sig, slab, q>>
       ELSE /\ sig' = DropResult(ferr)
            /\ slab' = SlabWithout(Sig)
            /\ q' = [q EXCEPT ![Sig] = 0]
            /\ UNCHANGED fres
    /\ UNCHANGED <<fkind, snap, ferr, lost, nfires>>
    /\ UNCHANGED exitVars

----------------------------------------------------------------------------
Next ==
    \/ \E e \in Exits : Clone(e)
    \/ \E e \in Exits : Poll(e)
    \/ \E e \in Exits : Wait(e)
    \/ \E e \in Exits : WaitPoll(e)
    \/ \E e \in Exits : \E w \in {"pending", "ready"} : Until(e, w)
    \/ \E e \in Exits : WorkDone(e)
    \/ \E e \in Exits : UntilPoll(e)
    \/ \E e \in Exits : DropExit(e)
    \/ FireStart
    \/ DropStart
    \/ \E h \in Handles : SendStep(h)
    \/ SendFinish

Spec == Init /\ [][Next]_vars

\* block_on drives a send, and a woken wait, to completion.
Fairness ==
    /\ \A e \in Exits : WF_vars(WaitPoll(e))
    /\ WF_vars(\E h \in Handles : SendStep(h))
    /\ WF_vars(SendFinish)

LiveSpec == Spec /\ Fairness

\* block_on in fire drives the send; nothing is assumed of the Exits' owners.
SendFairness ==
    /\ WF_vars(\E h \in Handles : SendStep(h))
    /\ WF_vars(SendFinish)

SendSpec == Spec /\ SendFairness

TypeOK ==
    /\ st \in [Exits -> {"unborn", "live", "dropped", "unit", "Some", "None"}]
    /\ q \in [Handles -> 0..(MaxFires + 1)]
    /\ slab \subseteq Handles
    /\ mode \in [Exits -> {"held", "wait", "until"}]
    /\ work \in [Exits -> {"none", "pending", "ready"}]
    /\ nready \in [Exits -> 0..(MaxFires + 1)]
    /\ parked \in [Exits -> BOOLEAN]
    /\ woke \in [Exits -> BOOLEAN]
    /\ born \in [Exits -> {"none", "early", "mid", "late"}]
    /\ sig \in {"alive", "dropped", "panicked"}
    /\ fpc \in {"idle", "sending"}
    /\ fkind \in {"none", "fire", "drop"}
    /\ snap \subseteq Handles
    /\ ferr \in BOOLEAN
    /\ lost \in BOOLEAN
    /\ fres \in {"none", "Ok", "Err"}
    /\ nfires \in 0..MaxFires

----------------------------------------------------------------------------
\* Properties.

\* Exit e has been handed exactly one message: it waits in its receiver, or
\* a poll took it.
Delivered(e) == q[e] + nready[e] = 1

\* Exit e was handed a message it has not taken, and its task is not left parked.
ReadyToResolve(e) == nready[e] = 0 => (q[e] >= 1 /\ ~parked[e])

\* The first explicit fire() returned Ok and no other send has begun.
FirstFireOk == nfires = 1 /\ fkind = "fire" /\ fpc = "idle" /\ fres = "Ok"

\* The Signal was dropped, without a panic, and fire() was never called.
DropOnly == sig = "dropped" /\ nfires = 0

C3_NoEarlyResolution ==
    fkind = "none" =>
        \A e \in Exits :
            /\ nready[e] = 0
            /\ st[e] \notin {"unit", "None"}
            /\ st[e] = "live" => ExitPoll(e) = "Pending"

\* C3 witness: before any fire, one Exit is parked in wait() and another in
\* a pending until.
C3_Witness ==
    /\ fkind = "none"
    /\ \E e \in Exits : st[e] = "live" /\ mode[e] = "wait" /\ parked[e]
    /\ \E e \in Exits : st[e] = "live" /\ mode[e] = "until" /\ parked[e]

\* C4 (late clones observe the firing), as claimed: once a fire() returned Ok
\* or the Signal was dropped, every unresolved live Exit, created before the
\* send or after it completed, resolves when polled.
C4_LateClonesObserve ==
    (fpc = "idle" /\ (fres = "Ok" \/ sig = "dropped")) =>
        \A e \in Exits :
            (st[e] = "live" /\ born[e] \in {"early", "late"} /\ nready[e] = 0)
                => ExitPoll(e) = "Ready"

\* C5 (at most one event), as claimed: no Exit returns Ready from more than
\* one poll.
C5_AtMostOnce == \A e \in Exits : nready[e] <= 1

\* C6 (until outcome), as claimed: an until that yielded Some had its work
\* complete, and after a fire() that returned Ok no until future over an Exit
\* created before or after that fire is left pending with its work pending.
C6_UntilOutcome ==
    \A e \in Exits :
        /\ st[e] = "Some" => work[e] = "ready"
        /\ ~(/\ fpc = "idle" /\ fres = "Ok"
             /\ st[e] = "live" /\ born[e] \in {"early", "late"}
             /\ mode[e] = "until" /\ work[e] = "pending" /\ parked[e])

\* C7 (until is biased toward the Exit): a poll of the until future that
\* finds both the Exit ready and the work ready yields None.
C7_ExitBias ==
    [][\A e \in Exits :
         (/\ st[e] = "live" /\ mode[e] = "until"
          /\ ExitPoll(e) = "Ready" /\ work[e] = "ready"
          /\ st'[e] \in {"Some", "None"}) => st'[e] = "None"]_vars

\* C7 witness: an until yielded None although its work was ready.
C7_Witness == \E e \in Exits : st[e] = "None" /\ work[e] = "ready"

C9_DropAlwaysFires ==
    /\ [][(sig = "alive" /\ sig' # "alive") =>
            (/\ fkind = "drop" /\ fpc = "sending" /\ snap = {}
             /\ sig' = IF ferr THEN "panicked" ELSE "dropped")]_vars
    /\ []((sig = "dropped" /\ nfires = 1 /\ fres = "Ok") =>
            \A e \in Exits : (st[e] = "live" /\ born[e] = "early") =>
                                q[e] + nready[e] = 2)

\* C9 witness: the Signal was dropped after a fire() that returned Ok, and an
\* Exit that was never polled holds two messages.
C9_Witness ==
    /\ sig = "dropped" /\ nfires = 1 /\ fres = "Ok"
    /\ \E e \in Exits : st[e] = "live" /\ born[e] = "early" /\ q[e] = 2

C11_IdempotentWait ==
    (fpc = "idle" /\ (fres = "Ok" \/ sig = "dropped")) =>
        \A e \in Exits :
            (st[e] = "live" /\ born[e] = "early" /\ mode[e] = "wait")
                => ~parked[e]

\* C12 (the drop never panics), as claimed: in no reachable state has the
\* drop of the Signal panicked.
C12_DropNeverPanics == sig # "panicked"

\* C13 (no lost wakeup): no message waits in the receiver of an Exit whose
\* task is parked after a poll that returned Pending (polled by hand, in
\* wait() or in until), however the polls interleave with the steps of a
\* send; and a thread that was parked in wait() and was unparked by a send
\* is not parked and finds its Exit ready at its next poll.
C13_NoLostWakeup ==
    \A e \in Exits :
        st[e] = "live" =>
            /\ parked[e] => ExitPoll(e) = "Pending"
            /\ woke[e] => (~parked[e] /\ ExitPoll(e) = "Ready")

\* C13 witness: a thread parked in wait() on an Exit created before any send
\* was unparked by a send and has not polled its Exit again yet.
C13_Witness ==
    \E e \in Exits :
        st[e] = "live" /\ born[e] = "early" /\ mode[e] = "wait" /\ woke[e] /\ q[e] = 1

C16_FireReturns == (fpc = "sending") ~> (fpc = "idle")

\* C16 witness: the send of the drop, the second after a fire() that
\* returned Ok, has completed while no Exit was ever polled or waited on:
\* every Exit is held idle with both messages still in its receiver.
C16_Witness ==
    /\ sig = "dropped" /\ fkind = "drop" /\ fpc = "idle" /\ nfires = 1 /\ fres = "Ok"
    /\ st[1] = "live"
    /\ \A e \in Exits :
         st[e] = "live" => (mode[e] = "held" /\ nready[e] = 0 /\ q[e] = 2)

\* C17 (the losing side of until is dropped): the step in which an until
\* yields Some drops its Exit (sender unregistered, receiver gone) and
\* changes nothing of the Signal, of a running send or of any other Exit;
\* the step in which an until yields None leaves the work as it was, and
\* after an until has yielded, its work never advances again.
C17_LoserDropped ==
    /\ [][\A e \in Exits :
            (st[e] = "live" /\ st'[e] = "Some") =>
                /\ e \notin slab' /\ q'[e] = 0
                /\ <<sig, fpc, fkind, snap, ferr, fres, nfires>>' =
                       <<sig, fpc, fkind, snap, ferr, fres, nfires>>
                /\ q'[Sig] = q[Sig]
                /\ \A o \in Exits \ {e} :
                     <<st[o], q[o], nready[o], parked[o], woke[o]>>' =
                         <<st[o], q[o], nready[o], parked[o], woke[o]>>]_vars
    /\ [][\A e \in Exits :
            /\ (st[e] = "live" /\ st'[e] = "None") => work'[e] = work[e]
            /\ st[e] \in {"Some", "None"} =>
                 (st'[e] = st[e] /\ work'[e] = work[e])]_vars

\* C17 witness: one until yielded Some while the Signal had not fired, and
\* after the fire another yielded None with its work still pending (as in
\* tests::work_until).
C17_Witness ==
    /\ sig = "alive" /\ fres = "Ok"
    /\ \E a \in Exits : st[a] = "Some" /\ work[a] = "ready"
    /\ \E b \in Exits : st[b] = "None" /\ work[b] = "pending"

====
